---- MODULE Spec2Model ----
(***************************************************************************)
(* SeqSync alignment engine: needlemanWunsch (global) and smithWaterman    *)
(* (local) of src/src/utils/alignmentLogic.test.js, lines 451-745.         *)
(*                                                                         *)
(* A call is modelled as a run of the function's code: the call (guard,    *)
(* matrix allocation, edge initialisation), one step per iteration of the  *)
(* fill loop, one step per iteration of the traceback loop, and the        *)
(* return.  Strings are sequences of one-character strings.  All scores    *)
(* are integers, so |a - b| < 1e-10 is a = b and x > 1e-10 is x > 0.       *)
(* The values null and undefined of a sequence argument are the two        *)
(* one-element sequences NullArg and UndefinedArg, whose element is no     *)
(* character.                                                              *)
(***************************************************************************)
EXTENDS Integers, Sequences, FiniteSets, TLC

VARIABLES pc, seq1, seq2, scores, matrix, i, j, maxScore, maxPos,
          path, alignedSeq1, alignedSeq2, result,
          fn,       \* the exported function that was called, "none" before the call
          thrown,   \* the message of the Error the call threw, "none" if it did not
          history   \* the calls made so far: function, arguments and outcome

vars == <<pc, seq1, seq2, scores, matrix, i, j, maxScore, maxPos,
          path, alignedSeq1, alignedSeq2, result, fn, thrown, history>>

-----------------------------------------------------------------------------
(* Bounds of the model *)

MaxLen == 3

Symbols == {"A", "C"}

MatchVals == {-1, 1, 2}
MismatchVals == {-1, 1}
GapVals == {-2, -1, 1}

RECURSIVE SeqsOfLen(_)
SeqsOfLen(k) ==
  IF k = 0 THEN {<< >>}
  ELSE {Append(s, c) : s \in SeqsOfLen(k - 1), c \in Symbols}

SeqsUpTo(k) == UNION {SeqsOfLen(l) : l \in 0..k}

Inputs == SeqsUpTo(MaxLen)

NullArg == <<"null">>

UndefinedArg == <<"undefined">>

(* what a caller may pass as a sequence: a string, the empty one included, *)
(* or null or undefined                                                    *)
Args == Inputs \cup {NullArg, UndefinedArg}

Scorings == [match : MatchVals, mismatch : MismatchVals, gap : GapVals]

-----------------------------------------------------------------------------
(* The program *)

DEFAULT_SCORES == [match |-> 2, mismatch |-> -1, gap |-> -2]

GapChar == "-"

NoResult == [algorithm |-> "none"]

Cell(r, c) == [row |-> r, col |-> c]

Max2(a, b) == IF a >= b THEN a ELSE b

(* Math.max(diagonal, up, left) *)
Max3(a, b, c) == Max2(Max2(a, b), c)

(* Math.max(0, diagonal, up, left) *)
Max4(z, a, b, c) == Max2(Max2(z, a), Max2(b, c))

Abs(x) == IF x < 0 THEN -x ELSE x

(* mutant: the tolerance is one unit wide *)
Near_Loose(a, b) == Abs(a - b) <= 1

(* Math.abs(a - b) < epsilon, epsilon = 1e-10, on integers *)
Near(a, b) == Abs(a - b) = 0

(* mutant: >= in place of > *)
AboveEps_Geq(x) == x >= 0

(* x > epsilon on integers *)
AboveEps(x) == x > 0

(* mutant: the two scores are swapped *)
MatchScore_Swapped(c1, c2, sc) == IF c1 = c2 THEN sc.mismatch ELSE sc.match

(* char1 === char2 ? scores.match : scores.mismatch *)
MatchScore(c1, c2, sc) == IF c1 = c2 THEN sc.match ELSE sc.mismatch

(* Array(m + 1).fill(null).map(() => Array(n + 1).fill(0)) *)
ZeroMatrix(m, n) == [r \in 0..m |-> [c \in 0..n |-> 0]]

(* matrix[i][0] = i * gap; matrix[0][j] = j * gap *)
NWEdgeValue(k, sc) == k * sc.gap

(* mutant: the edges are left at 0, as in the local aligner *)
NWInitMatrix_ZeroEdges(m, n, sc) == [r \in 0..m |-> [c \in 0..n |-> 0]]

NWInitMatrix(m, n, sc) ==
  [r \in 0..m |-> [c \in 0..n |->
     IF c = 0 THEN NWEdgeValue(r, sc)
     ELSE IF r = 0 THEN NWEdgeValue(c, sc)
     ELSE 0]]

(* mutant: the symbol of seq2 is read one position too far *)
DiagonalOf_ShiftedColumn(mat, r, c, s1, s2, sc) ==
  mat[r - 1][c - 1]
    + (IF c < Len(s2) /\ s1[r] = s2[c + 1] THEN sc.match ELSE sc.mismatch)

(* matrix[i - 1][j - 1] + matchScore *)
DiagonalOf(mat, r, c, s1, s2, sc) ==
  mat[r - 1][c - 1] + MatchScore(s1[r], s2[c], sc)

UpOf(mat, r, c, sc) == mat[r - 1][c] + sc.gap

LeftOf(mat, r, c, sc) == mat[r][c - 1] + sc.gap

(* mutant: the horizontal candidate is left out of the maximum *)
NWCellValue_NoLeft(mat, r, c, s1, s2, sc) ==
  Max2(mat[r - 1][c - 1] + (IF s1[r] = s2[c] THEN sc.match ELSE sc.mismatch),
       mat[r - 1][c] + sc.gap)

(* body of the needlemanWunsch fill loop: the value stored in matrix[r][c] *)
NWCellValue(mat, r, c, s1, s2, sc) ==
  Max3(DiagonalOf(mat, r, c, s1, s2, sc), UpOf(mat, r, c, sc), LeftOf(mat, r, c, sc))

(* mutant: the zero floor is left out of the maximum *)
SWCellValue_NoFloor(mat, r, c, s1, s2, sc) ==
  Max3(mat[r - 1][c - 1] + (IF s1[r] = s2[c] THEN sc.match ELSE sc.mismatch),
       mat[r - 1][c] + sc.gap, mat[r][c - 1] + sc.gap)

(* body of the smithWaterman fill loop: the value stored in matrix[r][c] *)
SWCellValue(mat, r, c, s1, s2, sc) ==
  Max4(0, DiagonalOf(mat, r, c, s1, s2, sc), UpOf(mat, r, c, sc), LeftOf(mat, r, c, sc))

SetCell(mat, r, c, v) == [mat EXCEPT ![r][c] = v]

(* mutant: >= in place of > *)
NewMax_Geq(v, best) == v >= best

(* if (matrix[i][j] > maxScore) *)
NewMax(v, best) == v > best

(* mutant: the vertical candidate is tested before the diagonal one *)
NWBranch_UpFirst(mat, r, c, s1, s2, sc) ==
  IF r = 0 THEN "row0"
  ELSE IF c = 0 THEN "col0"
  ELSE IF mat[r][c] = mat[r - 1][c] + sc.gap THEN "up"
  ELSE IF mat[r][c] = mat[r - 1][c - 1]
                        + (IF s1[r] = s2[c] THEN sc.match ELSE sc.mismatch)
  THEN "diagonal"
  ELSE IF mat[r][c] = mat[r][c - 1] + sc.gap THEN "left"
  ELSE "fallback"

(* mutant: the vertical branch is missing *)
NWBranch_NoUp(mat, r, c, s1, s2, sc) ==
  IF r = 0 THEN "row0"
  ELSE IF c = 0 THEN "col0"
  ELSE IF mat[r][c] = mat[r - 1][c - 1]
                        + (IF s1[r] = s2[c] THEN sc.match ELSE sc.mismatch)
  THEN "diagonal"
  ELSE IF mat[r][c] = mat[r][c - 1] + sc.gap THEN "left"
  ELSE "fallback"

(* the branch one needlemanWunsch traceback iteration takes at (r, c) *)
NWBranch(mat, r, c, s1, s2, sc) ==
  IF r = 0 THEN "row0"
  ELSE IF c = 0 THEN "col0"
  ELSE IF Near(mat[r][c], DiagonalOf(mat, r, c, s1, s2, sc)) THEN "diagonal"
  ELSE IF Near(mat[r][c], UpOf(mat, r, c, sc)) THEN "up"
  ELSE IF Near(mat[r][c], LeftOf(mat, r, c, sc)) THEN "left"
  ELSE "fallback"

(* mutant: the horizontal branch is missing *)
SWBranch_NoLeft(mat, r, c, s1, s2, sc) ==
  IF mat[r][c] = mat[r - 1][c - 1] + (IF s1[r] = s2[c] THEN sc.match ELSE sc.mismatch)
  THEN "diagonal"
  ELSE IF mat[r][c] = mat[r - 1][c] + sc.gap THEN "up"
  ELSE "break"

(* the branch one smithWaterman traceback iteration takes at (r, c) *)
SWBranch(mat, r, c, s1, s2, sc) ==
  IF Near(mat[r][c], DiagonalOf(mat, r, c, s1, s2, sc)) THEN "diagonal"
  ELSE IF Near(mat[r][c], UpOf(mat, r, c, sc)) THEN "up"
  ELSE IF Near(mat[r][c], LeftOf(mat, r, c, sc)) THEN "left"
  ELSE "break"

(* mutant: a horizontal step adds nothing to alignedSeq1 *)
Emit1_LeftNoGap(b, s1, r) ==
  IF b = "row0" THEN <<"-">>
  ELSE IF b \in {"left", "break"} THEN << >>
  ELSE <<s1[r]>>

(* mutant: a vertical step puts a gap into alignedSeq1 *)
Emit1_UpGap(b, s1, r) ==
  IF b \in {"row0", "left", "up", "col0"} THEN <<"-">>
  ELSE IF b = "break" THEN << >>
  ELSE <<s1[r]>>

(* what a branch prepends to alignedSeq1 / alignedSeq2 *)
Emit1(b, s1, r) ==
  IF b \in {"row0", "left"} THEN <<GapChar>>
  ELSE IF b = "break" THEN << >>
  ELSE <<s1[r]>>

(* mutant: a vertical step adds nothing to alignedSeq2 *)
Emit2_UpNoGap(b, s2, c) ==
  IF b = "col0" THEN <<"-">>
  ELSE IF b \in {"up", "break"} THEN << >>
  ELSE <<s2[c]>>

(* mutant: a vertical step puts the symbol of seq2 into alignedSeq2 *)
Emit2_UpSymbol(b, s2, c) ==
  IF b = "col0" THEN <<"-">>
  ELSE IF b = "break" THEN << >>
  ELSE <<s2[c]>>

Emit2(b, s2, c) ==
  IF b \in {"col0", "up"} THEN <<GapChar>>
  ELSE IF b = "break" THEN << >>
  ELSE <<s2[c]>>

(* i--, j-- of a branch *)
NextRow(b, r) == IF b \in {"row0", "left", "break"} THEN r ELSE r - 1

NextCol(b, c) == IF b \in {"col0", "up", "break"} THEN c ELSE c - 1

(* mutant: the path is returned in push order *)
Reverse_None(s) == s

(* path.reverse() *)
Reverse(s) == [k \in 1..Len(s) |-> s[Len(s) + 1 - k]]

(* path.push({ row: 0, col: 0 }) / path.push({ row: i, col: j }) *)
PushCell(p, r, c) == Append(p, Cell(r, c))

(* mutant: && in place of || *)
NWLoopCond_And(r, c) == r > 0 /\ c > 0

(* while (i > 0 || j > 0) *)
NWLoopCond(r, c) == r > 0 \/ c > 0

(* mutant: the value of the current cell is not tested *)
SWLoopCond_NoValueTest(mat, r, c) == r > 0 /\ c > 0

(* while (i > 0 && j > 0 && matrix[i][j] > epsilon) *)
SWLoopCond(mat, r, c) == r > 0 /\ c > 0 /\ AboveEps(mat[r][c])

(* !s : true of null, of undefined and of the empty string *)
Falsy(s) == s = NullArg \/ s = UndefinedArg \/ s = << >>

(* mutant: only the first argument is tested *)
InvalidInput_FirstOnly(s1, s2) == s1 \in {<<"null">>, <<"undefined">>, << >>}

(* !seq1 || !seq2 || seq1.length === 0 || seq2.length === 0 *)
InvalidInput(s1, s2) == Falsy(s1) \/ Falsy(s2) \/ Len(s1) = 0 \/ Len(s2) = 0

NoError == "none"

(* throw new Error('Both sequences must be non-empty') *)
EmptyInputError == "Both sequences must be non-empty"

(* the record of a finished call *)
CallRecord(f, s1, s2, sc, res, err) ==
  [fn |-> f, seq1 |-> s1, seq2 |-> s2, scores |-> sc, result |-> res, thrown |-> err]

-----------------------------------------------------------------------------
(* the arguments of the call are drawn here; the call itself is NWCall / SWCall *)
Init ==
  /\ pc = "idle"
  /\ seq1 \in Args
  /\ seq2 \in Args
  /\ scores \in Scorings
  /\ fn = "none"
  /\ thrown = NoError
  /\ history = << >>
  /\ matrix = ZeroMatrix(0, 0)
  /\ i = 0
  /\ j = 0
  /\ maxScore = 0
  /\ maxPos = Cell(0, 0)
  /\ path = << >>
  /\ alignedSeq1 = << >>
  /\ alignedSeq2 = << >>
  /\ result = NoResult

(* mutant: the working variables outlive the call and are not set up again *)
ClearLocals_Keep == UNCHANGED <<path, alignedSeq1, alignedSeq2, maxScore, maxPos>>

(* const path = []; let alignedSeq1 = ''; let alignedSeq2 = '';             *)
(* let maxScore = 0; let maxPos = { row: 0, col: 0 }: fresh in every call   *)
ClearLocals ==
  /\ path' = << >>
  /\ alignedSeq1' = << >>
  /\ alignedSeq2' = << >>
  /\ maxScore' = 0
  /\ maxPos' = Cell(0, 0)

(* needlemanWunsch(seq1, seq2, scores): guard, allocation and edge initialisation *)
NWCall ==
  /\ pc = "idle"
  /\ fn' = "needlemanWunsch"
  /\ UNCHANGED <<seq1, seq2, scores, result>>
  /\ ClearLocals
  /\ IF InvalidInput(seq1, seq2)
     THEN /\ pc' = "error"
          /\ thrown' = EmptyInputError
          /\ history' = Append(history, CallRecord("needlemanWunsch", seq1, seq2, scores,
                                                   result, EmptyInputError))
          /\ matrix' = ZeroMatrix(0, 0)
          /\ i' = 0
          /\ j' = 0
     ELSE /\ pc' = "nw_fill"
          /\ UNCHANGED <<thrown, history>>
          /\ matrix' = NWInitMatrix(Len(seq1), Len(seq2), scores)
          /\ i' = 1
          /\ j' = 1

(* one iteration of the inner fill loop of needlemanWunsch *)
NWFillCell ==
  /\ pc = "nw_fill"
  /\ matrix' = SetCell(matrix, i, j, NWCellValue(matrix, i, j, seq1, seq2, scores))
  /\ IF j < Len(seq2)
     THEN /\ j' = j + 1
          /\ UNCHANGED <<i, pc>>
     ELSE IF i < Len(seq1)
     THEN /\ i' = i + 1
          /\ j' = 1
          /\ UNCHANGED pc
     ELSE /\ i' = Len(seq1)
          /\ j' = Len(seq2)
          /\ pc' = "nw_trace"
  /\ UNCHANGED <<seq1, seq2, scores, maxScore, maxPos, path, alignedSeq1,
                 alignedSeq2, result, fn, thrown, history>>

(* one iteration of the traceback loop of needlemanWunsch *)
NWTraceStep ==
  /\ pc = "nw_trace"
  /\ NWLoopCond(i, j)
  /\ LET b == NWBranch(matrix, i, j, seq1, seq2, scores) IN
       /\ path' = PushCell(path, i, j)
       /\ alignedSeq1' = Emit1(b, seq1, i) \o alignedSeq1
       /\ alignedSeq2' = Emit2(b, seq2, j) \o alignedSeq2
       /\ i' = NextRow(b, i)
       /\ j' = NextCol(b, j)
  /\ UNCHANGED <<pc, seq1, seq2, scores, matrix, maxScore, maxPos, result,
                 fn, thrown, history>>

(* loop exit, final push and return of needlemanWunsch *)
NWReturn ==
  /\ pc = "nw_trace"
  /\ ~NWLoopCond(i, j)
  /\ result' = [algorithm |-> "Needleman-Wunsch",
                matrix |-> matrix,
                path |-> Reverse(PushCell(path, 0, 0)),
                alignedSeq1 |-> alignedSeq1,
                alignedSeq2 |-> alignedSeq2,
                score |-> matrix[Len(seq1)][Len(seq2)]]
  /\ history' = Append(history, CallRecord(fn, seq1, seq2, scores, result', NoError))
  /\ pc' = "done"
  /\ matrix' = ZeroMatrix(0, 0)
  /\ i' = 0
  /\ j' = 0
  /\ ClearLocals
  /\ UNCHANGED <<seq1, seq2, scores, fn, thrown>>

(* smithWaterman(seq1, seq2, scores): guard and allocation *)
SWCall ==
  /\ pc = "idle"
  /\ fn' = "smithWaterman"
  /\ UNCHANGED <<seq1, seq2, scores, result>>
  /\ ClearLocals
  /\ IF InvalidInput(seq1, seq2)
     THEN /\ pc' = "error"
          /\ thrown' = EmptyInputError
          /\ history' = Append(history, CallRecord("smithWaterman", seq1, seq2, scores,
                                                   result, EmptyInputError))
          /\ matrix' = ZeroMatrix(0, 0)
          /\ i' = 0
          /\ j' = 0
     ELSE /\ pc' = "sw_fill"
          /\ UNCHANGED <<thrown, history>>
          /\ matrix' = ZeroMatrix(Len(seq1), Len(seq2))
          /\ i' = 1
          /\ j' = 1

(* one iteration of the inner fill loop of smithWaterman *)
SWFillCell ==
  /\ pc = "sw_fill"
  /\ LET v == SWCellValue(matrix, i, j, seq1, seq2, scores) IN
       /\ matrix' = SetCell(matrix, i, j, v)
       /\ IF NewMax(v, maxScore)
          THEN /\ maxScore' = v
               /\ maxPos' = Cell(i, j)
          ELSE UNCHANGED <<maxScore, maxPos>>
       /\ IF j < Len(seq2)
          THEN /\ j' = j + 1
               /\ UNCHANGED <<i, pc>>
          ELSE IF i < Len(seq1)
          THEN /\ i' = i + 1
               /\ j' = 1
               /\ UNCHANGED pc
          ELSE /\ i' = IF NewMax(v, maxScore) THEN i ELSE maxPos.row
               /\ j' = IF NewMax(v, maxScore) THEN j ELSE maxPos.col
               /\ pc' = "sw_trace"
  /\ UNCHANGED <<seq1, seq2, scores, path, alignedSeq1, alignedSeq2, result,
                 fn, thrown, history>>

(* one iteration of the traceback loop of smithWaterman *)
SWTraceStep ==
  /\ pc = "sw_trace"
  /\ SWLoopCond(matrix, i, j)
  /\ LET b == SWBranch(matrix, i, j, seq1, seq2, scores) IN
       /\ path' = PushCell(path, i, j)
       /\ alignedSeq1' = Emit1(b, seq1, i) \o alignedSeq1
       /\ alignedSeq2' = Emit2(b, seq2, j) \o alignedSeq2
       /\ i' = NextRow(b, i)
       /\ j' = NextCol(b, j)
       /\ pc' = IF b = "break" THEN "sw_exit" ELSE "sw_trace"
  /\ UNCHANGED <<seq1, seq2, scores, matrix, maxScore, maxPos, result,
                 fn, thrown, history>>

(* loop exit (condition false or break), final push and return of smithWaterman *)
SWReturn ==
  /\ IF pc = "sw_trace" THEN ~SWLoopCond(matrix, i, j) ELSE pc = "sw_exit"
  /\ result' = [algorithm |-> "Smith-Waterman",
                matrix |-> matrix,
                path |-> Reverse(PushCell(path, i, j)),
                alignedSeq1 |-> alignedSeq1,
                alignedSeq2 |-> alignedSeq2,
                score |-> maxScore,
                startPos |-> Cell(i, j),
                endPos |-> maxPos]
  /\ history' = Append(history, CallRecord(fn, seq1, seq2, scores, result', NoError))
  /\ pc' = "done"
  /\ matrix' = ZeroMatrix(0, 0)
  /\ i' = 0
  /\ j' = 0
  /\ ClearLocals
  /\ UNCHANGED <<seq1, seq2, scores, fn, thrown>>

Next ==
  \/ NWCall
  \/ NWFillCell
  \/ NWTraceStep
  \/ NWReturn
  \/ SWCall
  \/ SWFillCell
  \/ SWTraceStep
  \/ SWReturn

Spec == Init /\ [][Next]_vars

(* every loop iteration and the return are taken: the call runs to its end *)
FairSpec == Spec /\ WF_vars(NWFillCell) /\ WF_vars(NWTraceStep) /\ WF_vars(NWReturn)
                 /\ WF_vars(SWFillCell) /\ WF_vars(SWTraceStep) /\ WF_vars(SWReturn)

-----------------------------------------------------------------------------
(* Results and reference definitions used by the properties *)

NWDone == pc = "done" /\ result.algorithm = "Needleman-Wunsch"

SWDone == pc = "done" /\ result.algorithm = "Smith-Waterman"

M == Len(seq1)

N == Len(seq2)

SetMax(S) == CHOOSE x \in S : \A y \in S : y <= x

Min2(a, b) == IF a <= b THEN a ELSE b

(* the recurrence of global alignment, read top-down *)
RECURSIVE RefNW(_, _)
RefNW(r, c) ==
  IF c = 0 THEN r * scores.gap
  ELSE IF r = 0 THEN c * scores.gap
  ELSE SetMax({RefNW(r - 1, c - 1)
                 + (IF seq1[r] = seq2[c] THEN scores.match ELSE scores.mismatch),
               RefNW(r - 1, c) + scores.gap,
               RefNW(r, c - 1) + scores.gap})

(* the recurrence of local alignment, read top-down *)
RECURSIVE RefSW(_, _)
RefSW(r, c) ==
  IF r = 0 \/ c = 0 THEN 0
  ELSE SetMax({0,
               RefSW(r - 1, c - 1)
                 + (IF seq1[r] = seq2[c] THEN scores.match ELSE scores.mismatch),
               RefSW(r - 1, c) + scores.gap,
               RefSW(r, c - 1) + scores.gap})

(* every gapped alignment of a symbols with b symbols, as its sequence of   *)
(* columns: "D" a symbol pair, "U" a symbol of the first sequence over a    *)
(* gap, "L" a gap over a symbol of the second sequence                      *)
RECURSIVE Alignments(_, _)
Alignments(a, b) ==
  IF a = 0 /\ b = 0 THEN {<< >>}
  ELSE (IF a > 0 /\ b > 0 THEN {<<"D">> \o p : p \in Alignments(a - 1, b - 1)} ELSE {})
       \cup (IF a > 0 THEN {<<"U">> \o p : p \in Alignments(a - 1, b)} ELSE {})
       \cup (IF b > 0 THEN {<<"L">> \o p : p \in Alignments(a, b - 1)} ELSE {})

(* the sum of the column scores of alignment p of x with y *)
RECURSIVE AlignScore(_, _, _)
AlignScore(p, x, y) ==
  IF p = << >> THEN 0
  ELSE IF Head(p) = "D"
       THEN (IF Head(x) = Head(y) THEN scores.match ELSE scores.mismatch)
            + AlignScore(Tail(p), Tail(x), Tail(y))
  ELSE IF Head(p) = "U" THEN scores.gap + AlignScore(Tail(p), Tail(x), y)
  ELSE scores.gap + AlignScore(Tail(p), x, Tail(y))

BestGlobal(x, y) == SetMax({AlignScore(p, x, y) : p \in Alignments(Len(x), Len(y))})

(* the best alignment score of a suffix of seq1[1..r] with a suffix of seq2[1..c] *)
BestLocalEndingAt(r, c) ==
  SetMax({BestGlobal(SubSeq(seq1, a + 1, r), SubSeq(seq2, b + 1, c)) :
            a \in 0..r, b \in 0..c})

-----------------------------------------------------------------------------
(* C1: the matrix returned by needlemanWunsch has m+1 rows and n+1 columns, *)
(* its edges are M[i][0] = i*gap and M[0][j] = j*gap, and every inner cell  *)
(* is the maximum of the three candidates of the recurrence.                *)
C1_NWMatrixIsRecurrence ==
  NWDone =>
    /\ DOMAIN result.matrix = 0..M
    /\ \A r \in 0..M : DOMAIN result.matrix[r] = 0..N
    /\ \A r \in 0..M : result.matrix[r][0] = r * scores.gap
    /\ \A c \in 0..N : result.matrix[0][c] = c * scores.gap
    /\ \A r \in 0..M, c \in 0..N : result.matrix[r][c] = RefNW(r, c)

C1_Witness ==
  /\ NWDone
  /\ M >= 2 /\ N >= 2 /\ M # N
  /\ scores.gap # 0
  /\ \E r \in 1..M, c \in 1..N :
       result.matrix[r][c] # result.matrix[r - 1][c - 1] + scores.match

(* C2: the matrix returned by smithWaterman has zero edges, every inner     *)
(* cell is the maximum of 0 and the three candidates, for any signs of the  *)
(* scores, and so no cell is negative.                                      *)
C2_SWMatrixIsRecurrence ==
  SWDone =>
    /\ DOMAIN result.matrix = 0..M
    /\ \A r \in 0..M : DOMAIN result.matrix[r] = 0..N
    /\ \A r \in 0..M : result.matrix[r][0] = 0
    /\ \A c \in 0..N : result.matrix[0][c] = 0
    /\ \A r \in 0..M, c \in 0..N : result.matrix[r][c] = RefSW(r, c)
    /\ \A r \in 0..M, c \in 0..N : result.matrix[r][c] >= 0

C2_Witness ==
  /\ SWDone
  /\ M >= 2 /\ N >= 2
  /\ \E r \in 1..M, c \in 1..N : result.matrix[r][c] > 0
  /\ \E r \in 1..M, c \in 1..N :
       /\ result.matrix[r][c] = 0
       /\ result.matrix[r - 1][c - 1] + scores.mismatch < 0
       /\ result.matrix[r - 1][c] + scores.gap < 0
       /\ result.matrix[r][c - 1] + scores.gap < 0

(* C3: every cell (i,j) of the needlemanWunsch matrix is the best score of  *)
(* any gapped alignment of the first i symbols of seq1 with the first j     *)
(* symbols of seq2, and the returned score is M[m][n].                      *)
C3_NWCellsAreOptimal ==
  NWDone =>
    /\ \A r \in 0..M, c \in 0..N :
         result.matrix[r][c] = BestGlobal(SubSeq(seq1, 1, r), SubSeq(seq2, 1, c))
    /\ result.score = result.matrix[M][N]
    /\ \A p \in Alignments(M, N) : AlignScore(p, seq1, seq2) <= result.score

C3_Witness ==
  /\ NWDone
  /\ M >= 2 /\ N >= 2
  /\ \E p \in Alignments(M, N) : AlignScore(p, seq1, seq2) < result.score
  /\ \E p \in Alignments(M, N) : "D" \in {p[k] : k \in 1..Len(p)}
                                  /\ "U" \in {p[k] : k \in 1..Len(p)}
                                  /\ AlignScore(p, seq1, seq2) = result.score

(* C4 as stated: for every integer scoring model, a positive gap value      *)
(* included, every cell (i,j) of the smithWaterman matrix is the best score *)
(* of an alignment of a suffix of seq1[1..i] with a suffix of seq2[1..j],   *)
(* the empty alignment scoring 0.                                           *)
C4_Original ==
  SWDone =>
    \A r \in 0..M, c \in 0..N : result.matrix[r][c] = BestLocalEndingAt(r, c)

(* C4 amended: the same, for every integer scoring model whose gap value is *)
(* not positive (match and mismatch of any sign).                           *)
C4_SWCellsAreOptimalNonPositiveGap ==
  (SWDone /\ scores.gap <= 0) =>
    \A r \in 0..M, c \in 0..N : result.matrix[r][c] = BestLocalEndingAt(r, c)

C4_Witness ==
  /\ SWDone
  /\ scores.gap <= 0
  /\ M >= 2 /\ N >= 2
  /\ \E r \in 1..M, c \in 1..N :
       /\ result.matrix[r][c] > 0
       /\ result.matrix[r][c] = result.matrix[r - 1][c] + scores.gap
       /\ result.matrix[r][c] # result.matrix[r - 1][c - 1]
                                  + (IF seq1[r] = seq2[c] THEN scores.match
                                     ELSE scores.mismatch)

(* C5: in every result of needlemanWunsch the two aligned strings have the  *)
(* same length, which is the number of path cells minus one.                *)
C5_NWShape ==
  NWDone =>
    /\ Len(result.alignedSeq1) = Len(result.alignedSeq2)
    /\ Len(result.alignedSeq1) = Len(result.path) - 1

C5_Witness ==
  /\ NWDone
  /\ M # N
  /\ \E k \in 1..Len(result.alignedSeq1) : result.alignedSeq1[k] = "-"
  /\ \E k \in 1..Len(result.alignedSeq2) : result.alignedSeq2[k] = "-"
  /\ Len(result.path) = Len(result.alignedSeq1) + 1

(* C6: in the path returned by either aligner, two consecutive cells differ *)
(* by at most 1 in row, at most 1 in column and at least 1 in total.        *)
C6_PathContinuity ==
  pc = "done" =>
    \A k \in 1..(Len(result.path) - 1) :
      LET dr == Abs(result.path[k + 1].row - result.path[k].row)
          dc == Abs(result.path[k + 1].col - result.path[k].col)
      IN  dr <= 1 /\ dc <= 1 /\ dr + dc >= 1

C6_Witness ==
  /\ SWDone
  /\ Len(result.path) >= 4
  /\ \E k \in 1..(Len(result.path) - 1) :
       result.path[k + 1].row = result.path[k].row
  /\ \E k \in 1..(Len(result.path) - 1) :
       result.path[k + 1].col = result.path[k].col

(* C7: the needlemanWunsch traceback makes at most m+n iterations and the   *)
(* call returns; the returned path starts at (0,0), ends at (m,n) and has   *)
(* between max(m,n)+1 and m+n+1 cells.                                      *)
C7_NWTracebackTerminates ==
  /\ [](pc = "nw_trace" => Len(path) <= M + N)
  /\ [](pc \in {"nw_fill", "nw_trace"} => <>NWDone)
  /\ [](NWDone =>
         /\ result.path[1] = Cell(0, 0)
         /\ result.path[Len(result.path)] = Cell(M, N)
         /\ Len(result.path) >= Max2(M, N) + 1
         /\ Len(result.path) <= M + N + 1)

C7_Witness ==
  /\ NWDone
  /\ M >= 2 /\ N >= 2
  /\ Len(result.path) > Max2(M, N) + 1
  /\ Len(result.path) < M + N + 1

(* C8: the score returned by smithWaterman is the matrix value at the last  *)
(* cell of the returned path.                                               *)
C8_SWScoreAtPathEnd ==
  SWDone =>
    LET last == result.path[Len(result.path)]
    IN  result.score = result.matrix[last.row][last.col]

C8_Witness ==
  /\ SWDone
  /\ result.score > 0
  /\ Len(result.path) >= 3
  /\ result.path[Len(result.path)] # Cell(M, N)

(* C9 as stated: the local alignment has length at most min(m,n) and the    *)
(* score is never negative.                                                 *)
C9_Original ==
  SWDone =>
    /\ Len(result.alignedSeq1) = Len(result.alignedSeq2)
    /\ Len(result.alignedSeq1) <= Min2(M, N)
    /\ result.score >= 0

(* C9 amended: the two aligned strings of a smithWaterman result have the   *)
(* same length, at most m+n-1, and the score is never negative.             *)
C9_SWLengthAndScoreBounds ==
  SWDone =>
    /\ Len(result.alignedSeq1) = Len(result.alignedSeq2)
    /\ Len(result.alignedSeq1) <= M + N - 1
    /\ result.score >= 0

C9_Witness ==
  /\ SWDone
  /\ scores.gap < 0
  /\ Len(result.alignedSeq1) > Min2(M, N)

(* C10: when no cell of the smithWaterman matrix is positive, the score is  *)
(* 0, both aligned strings are empty and the path is the single cell (0,0), *)
(* which is startPos and endPos.                                            *)
C10_SWNoPositiveCell ==
  (SWDone /\ \A r \in 0..M, c \in 0..N : result.matrix[r][c] <= 0) =>
    /\ result.score = 0
    /\ result.alignedSeq1 = << >>
    /\ result.alignedSeq2 = << >>
    /\ result.path = <<Cell(0, 0)>>
    /\ result.startPos = Cell(0, 0)
    /\ result.endPos = Cell(0, 0)

C10_Witness ==
  /\ SWDone
  /\ scores = DEFAULT_SCORES
  /\ M >= 2 /\ N >= 2
  /\ \A r \in 1..M, c \in 1..N : seq1[r] # seq2[c]
  /\ \A r \in 0..M, c \in 0..N : result.matrix[r][c] <= 0
  /\ result.path = <<Cell(0, 0)>>

(* C11: needlemanWunsch and smithWaterman throw whenever seq1 or seq2 is    *)
(* the empty string, null or undefined, and they throw before anything is   *)
(* built: no matrix, no path, no aligned string and no result exist then.   *)
C11_InvalidInputThrows ==
  (/\ fn \in {"needlemanWunsch", "smithWaterman"}
   /\ \/ seq1 \in {<< >>, NullArg, UndefinedArg}
      \/ seq2 \in {<< >>, NullArg, UndefinedArg})
  => /\ pc = "error"
     /\ thrown = EmptyInputError
     /\ result = NoResult
     /\ matrix = ZeroMatrix(0, 0)
     /\ path = << >>
     /\ alignedSeq1 = << >>
     /\ alignedSeq2 = << >>

C11_Witness ==
  /\ pc = "error"
  /\ fn = "smithWaterman"
  /\ Len(seq1) = 2 /\ seq1 \in Inputs
  /\ seq2 = UndefinedArg
  /\ thrown = EmptyInputError

-----------------------------------------------------------------------------
(* formatAlignment and calculateAlignmentStats *)

MaxAlignedLen == 3

(* the strings handed to the two functions: symbols and gap markers *)
AlignedSymbols == Symbols \cup {GapChar}

RECURSIVE AlignedOfLen(_)
AlignedOfLen(k) ==
  IF k = 0 THEN {<< >>}
  ELSE {Append(s, c) : s \in AlignedOfLen(k - 1), c \in AlignedSymbols}

AlignedInputs == UNION {AlignedOfLen(l) : l \in 0..MaxAlignedLen}

(* throw new Error('Aligned sequences must have equal length') *)
LengthMismatchError == "Aligned sequences must have equal length"

(* mutant: only a longer first string is rejected *)
LengthMismatch_FirstLonger(a, b) == Len(a) > Len(b)

(* seq1.length !== seq2.length *)
LengthMismatch(a, b) == Len(a) # Len(b)

NewLine == "\n"

(* the character one iteration of the formatAlignment loop adds to matchLine *)
IndicatorAt(a, b, k) ==
  IF a[k] = b[k] THEN "|"
  ELSE IF a[k] = GapChar \/ b[k] = GapChar THEN " "
  ELSE ":"

(* the formatAlignment loop *)
MatchLine(a, b) == [k \in 1..Len(a) |-> IndicatorAt(a, b, k)]

(* `${seq1}\n${matchLine}\n${seq2}` *)
FormatText(a, b) == a \o <<NewLine>> \o MatchLine(a, b) \o <<NewLine>> \o b

(* what formatAlignment(a, b) does: the Error it throws or the value it returns *)
FormatOutcome(a, b) ==
  IF LengthMismatch(a, b)
  THEN [thrown |-> LengthMismatchError, value |-> NoResult]
  ELSE [thrown |-> NoError, value |-> FormatText(a, b)]

ZeroCounts == [matches |-> 0, mismatches |-> 0, gaps |-> 0]

(* mutant: the equality test comes first, as in formatAlignment *)
CountStep_EqualFirst(cnt, x, y) ==
  IF x = y THEN [cnt EXCEPT !.matches = @ + 1]
  ELSE IF x = "-" \/ y = "-" THEN [cnt EXCEPT !.gaps = @ + 1]
  ELSE [cnt EXCEPT !.mismatches = @ + 1]

(* mutant: a column of two gap markers counts as two gaps *)
CountStep_GapPerMarker(cnt, x, y) ==
  IF x = "-" /\ y = "-" THEN [cnt EXCEPT !.gaps = @ + 2]
  ELSE IF x = "-" \/ y = "-" THEN [cnt EXCEPT !.gaps = @ + 1]
  ELSE IF x = y THEN [cnt EXCEPT !.matches = @ + 1]
  ELSE [cnt EXCEPT !.mismatches = @ + 1]

(* one iteration of the calculateAlignmentStats loop *)
CountStep(cnt, x, y) ==
  IF x = GapChar \/ y = GapChar THEN [cnt EXCEPT !.gaps = @ + 1]
  ELSE IF x = y THEN [cnt EXCEPT !.matches = @ + 1]
  ELSE [cnt EXCEPT !.mismatches = @ + 1]

(* the calculateAlignmentStats loop from index k on (1-based) *)
RECURSIVE CountFrom(_, _, _, _)
CountFrom(cnt, a, b, k) ==
  IF k > Len(a) THEN cnt
  ELSE CountFrom(CountStep(cnt, a[k], b[k]), a, b, k + 1)

DigitChars == <<"0", "1", "2", "3", "4", "5", "6", "7", "8", "9">>

(* the decimal digits of a natural number *)
RECURSIVE NatToChars(_)
NatToChars(n) ==
  IF n < 10 THEN <<DigitChars[n + 1]>>
  ELSE NatToChars(n \div 10) \o <<DigitChars[(n % 10) + 1]>>

NaNChars == <<"N", "a", "N">>

(* ((num / den) * 100).toFixed(2) for naturals num <= den: 0/0 is NaN, and   *)
(* toFixed takes the nearest number of hundredths, the larger one on a tie  *)
ToFixed2(num, den) ==
  IF den = 0 THEN NaNChars
  ELSE LET h == (2 * num * 10000 + den) \div (2 * den)
       IN  NatToChars(h \div 100) \o <<".">>
             \o <<DigitChars[((h % 100) \div 10) + 1], DigitChars[(h % 10) + 1]>>

(* `${identity}%` *)
PercentText(num, den) == ToFixed2(num, den) \o <<"%">>

(* the object calculateAlignmentStats returns *)
StatsValue(a, b) ==
  LET cnt == CountFrom(ZeroCounts, a, b, 1)
      alignmentLength == Len(a)
  IN  [matches |-> cnt.matches,
       mismatches |-> cnt.mismatches,
       gaps |-> cnt.gaps,
       alignmentLength |-> alignmentLength,
       identity |-> PercentText(cnt.matches, alignmentLength),
       similarity |-> PercentText(cnt.matches + cnt.mismatches, alignmentLength)]

(* what calculateAlignmentStats(a, b) does *)
StatsOutcome(a, b) ==
  IF LengthMismatch(a, b)
  THEN [thrown |-> LengthMismatchError, value |-> NoResult]
  ELSE [thrown |-> NoError, value |-> StatsValue(a, b)]

(* the two aligned strings are drawn here *)
InitFmt ==
  /\ pc = "idle"
  /\ seq1 \in AlignedInputs
  /\ seq2 \in AlignedInputs
  /\ scores = DEFAULT_SCORES
  /\ fn = "none"
  /\ thrown = NoError
  /\ history = << >>
  /\ matrix = ZeroMatrix(0, 0)
  /\ i = 0
  /\ j = 0
  /\ maxScore = 0
  /\ maxPos = Cell(0, 0)
  /\ path = << >>
  /\ alignedSeq1 = << >>
  /\ alignedSeq2 = << >>
  /\ result = NoResult

(* formatAlignment(seq1, seq2) *)
FormatAlignment ==
  /\ pc = "idle"
  /\ fn' = "formatAlignment"
  /\ LET out == FormatOutcome(seq1, seq2) IN
       /\ thrown' = out.thrown
       /\ result' = out.value
       /\ pc' = IF out.thrown = NoError THEN "done" ELSE "error"
       /\ history' = Append(history, CallRecord("formatAlignment", seq1, seq2,
                                                scores, out.value, out.thrown))
  /\ UNCHANGED <<seq1, seq2, scores, matrix, i, j, maxScore, maxPos, path,
                 alignedSeq1, alignedSeq2>>

(* calculateAlignmentStats(seq1, seq2) *)
CalculateAlignmentStats ==
  /\ pc = "idle"
  /\ fn' = "calculateAlignmentStats"
  /\ LET out == StatsOutcome(seq1, seq2) IN
       /\ thrown' = out.thrown
       /\ result' = out.value
       /\ pc' = IF out.thrown = NoError THEN "done" ELSE "error"
       /\ history' = Append(history, CallRecord("calculateAlignmentStats", seq1, seq2,
                                                scores, out.value, out.thrown))
  /\ UNCHANGED <<seq1, seq2, scores, matrix, i, j, maxScore, maxPos, path,
                 alignedSeq1, alignedSeq2>>

NextFmt ==
  \/ FormatAlignment
  \/ CalculateAlignmentStats

FmtSpec == InitFmt /\ [][NextFmt]_vars

FormatDone == fn = "formatAlignment" /\ pc = "done"

StatsDone == fn = "calculateAlignmentStats" /\ pc = "done"

-----------------------------------------------------------------------------
(* C12: formatAlignment and calculateAlignmentStats throw the length error  *)
(* exactly when the two strings differ in length, and return a value for    *)
(* every pair of strings of equal length.                                   *)
C12_LengthErrorIffLengthsDiffer ==
  fn \in {"formatAlignment", "calculateAlignmentStats"} =>
    /\ (pc = "error" /\ thrown = LengthMismatchError) <=> (Len(seq1) # Len(seq2))
    /\ (Len(seq1) = Len(seq2)) =>
         (pc = "done" /\ thrown = NoError /\ result # NoResult)

C12_Witness ==
  /\ fn = "calculateAlignmentStats"
  /\ pc = "error"
  /\ thrown = LengthMismatchError
  /\ Len(seq1) = 2
  /\ Len(seq2) = 3

(* C13: the two aligned strings of every result of needlemanWunsch and of   *)
(* smithWaterman have the same length, so formatAlignment and               *)
(* calculateAlignmentStats, given them, do not throw the length error.      *)
C13_ResultsNeverRaiseLengthError ==
  (pc = "done" /\ fn \in {"needlemanWunsch", "smithWaterman"}) =>
    /\ Len(result.alignedSeq1) = Len(result.alignedSeq2)
    /\ FormatOutcome(result.alignedSeq1, result.alignedSeq2).thrown = NoError
    /\ StatsOutcome(result.alignedSeq1, result.alignedSeq2).thrown = NoError

C13_Witness ==
  /\ pc = "done"
  /\ fn = "smithWaterman"
  /\ M # N
  /\ Len(result.alignedSeq1) >= 3
  /\ \E k \in 1..Len(result.alignedSeq1) : result.alignedSeq1[k] = "-"
  /\ FormatOutcome(result.alignedSeq1, result.alignedSeq2).thrown = NoError

(* C14: for two strings of equal length formatAlignment returns the first   *)
(* string, an indicator line and the second string, separated by newlines;  *)
(* the indicator line is as long as the strings, with a space wherever      *)
(* either string has the gap marker, '|' where the two symbols are equal    *)
(* and no gap, ':' where they differ and neither is a gap.                  *)
C14_FormatIndicatorLine ==
  FormatDone =>
    LET L == Len(seq1) IN
      /\ Len(result) = 3 * L + 2
      /\ SubSeq(result, 1, L) = seq1
      /\ result[L + 1] = "\n"
      /\ result[2 * L + 2] = "\n"
      /\ SubSeq(result, 2 * L + 3, 3 * L + 2) = seq2
      /\ \A k \in 1..L :
           result[L + 1 + k] =
             IF seq1[k] = "-" \/ seq2[k] = "-" THEN " "
             ELSE IF seq1[k] = seq2[k] THEN "|"
             ELSE ":"

(* C15: for two strings of equal length the counts returned by              *)
(* calculateAlignmentStats add up: matches + mismatches + gaps is           *)
(* alignmentLength, the common length of the strings.                       *)
C15_StatsCountsAddUp ==
  StatsDone =>
    /\ result.alignmentLength = Len(seq1)
    /\ result.alignmentLength = Len(seq2)
    /\ result.matches + result.mismatches + result.gaps = result.alignmentLength

C15_Witness ==
  /\ StatsDone
  /\ result.matches > 0
  /\ result.mismatches > 0
  /\ result.gaps > 0
  /\ \E k \in 1..Len(seq1) : seq1[k] = "-" /\ seq2[k] = "-"

(* C16: calculateAlignmentStats puts each position in one class: gap when   *)
(* either symbol is the gap marker (both included), else match when the     *)
(* symbols are equal, else mismatch; gaps, matches and mismatches are the   *)
(* numbers of positions of each class.                                      *)
C16_StatsClassification ==
  StatsDone =>
    LET Pos == 1..Len(seq1)
        GapPos == {k \in Pos : seq1[k] = "-" \/ seq2[k] = "-"}
        MatchPos == {k \in Pos \ GapPos : seq1[k] = seq2[k]}
        MismatchPos == (Pos \ GapPos) \ MatchPos
    IN  /\ result.gaps = Cardinality(GapPos)
        /\ result.matches = Cardinality(MatchPos)
        /\ result.mismatches = Cardinality(MismatchPos)

C16_Witness ==
  /\ StatsDone
  /\ Len(seq1) = 3
  /\ \E k \in 1..3 : seq1[k] = "-" /\ seq2[k] = "-"
  /\ \E k \in 1..3 : seq1[k] # "-" /\ seq2[k] = "-"
  /\ result.gaps = 2
  /\ result.matches = 1

(* a percentage text: digits, a point, two digits and the percent sign *)
DigitValue(c) == CHOOSE d \in 0..9 : DigitChars[d + 1] = c

IsDigit(c) == \E d \in 0..9 : DigitChars[d + 1] = c

RECURSIVE CharsToNat(_)
CharsToNat(s) ==
  IF s = << >> THEN 0
  ELSE 10 * CharsToNat(SubSeq(s, 1, Len(s) - 1)) + DigitValue(s[Len(s)])

IsPercentText(t) ==
  /\ Len(t) >= 5
  /\ t[Len(t)] = "%"
  /\ t[Len(t) - 3] = "."
  /\ \A k \in (1..(Len(t) - 4)) \cup {Len(t) - 2, Len(t) - 1} : IsDigit(t[k])

(* the value of a percentage text, in hundredths of a percent *)
Hundredths(t) ==
  100 * CharsToNat(SubSeq(t, 1, Len(t) - 4))
    + 10 * DigitValue(t[Len(t) - 2]) + DigitValue(t[Len(t) - 1])

(* h hundredths is num/den as a percentage, to two decimals *)
IsPercentageOf(h, num, den) ==
  /\ den > 0
  /\ 2 * Abs(h * den - 10000 * num) <= den

(* C17: for every pair of strings of equal length, the empty pair included, *)
(* identity is the percentage 100*matches/alignmentLength and similarity is *)
(* 100*(matches+mismatches)/alignmentLength, both numbers between 0 and 100 *)
(* with identity <= similarity.                                             *)
C17_PercentagesWellDefined ==
  StatsDone =>
    /\ IsPercentText(result.identity)
    /\ IsPercentText(result.similarity)
    /\ IsPercentageOf(Hundredths(result.identity), result.matches,
                      result.alignmentLength)
    /\ IsPercentageOf(Hundredths(result.similarity),
                      result.matches + result.mismatches, result.alignmentLength)
    /\ Hundredths(result.identity) >= 0
    /\ Hundredths(result.similarity) <= 10000
    /\ Hundredths(result.identity) <= Hundredths(result.similarity)

(* the same for strings that are not empty: what the code does compute *)
C17_PercentagesOfNonEmptyPairs ==
  (StatsDone /\ Len(seq1) > 0) =>
    /\ IsPercentText(result.identity)
    /\ IsPercentText(result.similarity)
    /\ IsPercentageOf(Hundredths(result.identity), result.matches,
                      result.alignmentLength)
    /\ IsPercentageOf(Hundredths(result.similarity),
                      result.matches + result.mismatches, result.alignmentLength)
    /\ Hundredths(result.identity) <= Hundredths(result.similarity)
    /\ Hundredths(result.similarity) <= 10000

-----------------------------------------------------------------------------
(* Several calls in a row: the first call on any arguments, then a call on  *)
(* the same or on other sequences, then the first arguments again.  The     *)
(* caller passes the same scoring object to every call, as SeqSync.jsx does *)

DetMaxLen == 2

MaxCalls == 3

OtherSeq1 == <<"C", "A">>

OtherSeq2 == <<"A">>

InitDet ==
  /\ pc = "idle"
  /\ seq1 \in SeqsUpTo(DetMaxLen)
  /\ seq2 \in SeqsUpTo(DetMaxLen)
  /\ scores \in Scorings
  /\ fn = "none"
  /\ thrown = NoError
  /\ history = << >>
  /\ matrix = ZeroMatrix(0, 0)
  /\ i = 0
  /\ j = 0
  /\ maxScore = 0
  /\ maxPos = Cell(0, 0)
  /\ path = << >>
  /\ alignedSeq1 = << >>
  /\ alignedSeq2 = << >>
  /\ result = NoResult

(* the caller, after a call has returned or thrown, prepares the next call: *)
(* on the first call's sequences, or right after the first call on others   *)
NextCall ==
  /\ pc \in {"done", "error"}
  /\ Len(history) < MaxCalls
  /\ \E again \in BOOLEAN :
       /\ again \/ Len(history) = 1
       /\ seq1' = IF again THEN history[1].seq1 ELSE OtherSeq1
       /\ seq2' = IF again THEN history[1].seq2 ELSE OtherSeq2
  /\ pc' = "idle"
  /\ fn' = "none"
  /\ thrown' = NoError
  /\ result' = NoResult
  /\ UNCHANGED <<scores, history, matrix, i, j, maxScore, maxPos, path,
                 alignedSeq1, alignedSeq2>>

NextDet ==
  \/ NWCall
  \/ NWFillCell
  \/ NWTraceStep
  \/ NWReturn
  \/ SWCall
  \/ SWFillCell
  \/ SWTraceStep
  \/ SWReturn
  \/ NextCall

DetSpec == InitDet /\ [][NextDet]_vars

SameCall(a, b) ==
  /\ a.fn = b.fn
  /\ a.seq1 = b.seq1
  /\ a.seq2 = b.seq2
  /\ a.scores = b.scores

(* C18: two calls of the same aligner with the same arguments return the    *)
(* same matrix, path, aligned strings and score (or throw the same Error),  *)
(* also with calls of either aligner on other sequences in between; no call *)
(* changes the scoring object.                                              *)
C18_RepeatedCallsAgree ==
  /\ [](\A a \in 1..Len(history), b \in 1..Len(history) :
          SameCall(history[a], history[b]) =>
            /\ history[a].result = history[b].result
            /\ history[a].thrown = history[b].thrown)
  /\ [][scores' = scores]_vars

C18_Witness ==
  /\ Len(history) = 3
  /\ SameCall(history[1], history[3])
  /\ history[1].fn = "smithWaterman"
  /\ history[2].fn = "needlemanWunsch"
  /\ history[2].seq1 # history[1].seq1
  /\ history[1].thrown = NoError
  /\ Len(history[1].result.path) >= 3
  /\ Len(history[2].result.path) >= 3
  /\ history[1].result = history[3].result

-----------------------------------------------------------------------------
(* C19: needlemanWunsch(s, s) with the default scores returns score 2*|s|,  *)
(* both aligned strings equal to s, and the diagonal path (0,0), (1,1), ... *)
(* (|s|,|s|).                                                               *)
C19_NWIdenticalSequences ==
  (NWDone /\ seq1 = seq2 /\ scores = DEFAULT_SCORES) =>
    /\ result.score = 2 * Len(seq1)
    /\ result.alignedSeq1 = seq1
    /\ result.alignedSeq2 = seq1
    /\ \A k \in 1..Len(result.alignedSeq1) : result.alignedSeq1[k] # "-"
    /\ Len(result.path) = Len(seq1) + 1
    /\ \A k \in 1..(Len(seq1) + 1) : result.path[k] = Cell(k - 1, k - 1)

C19_Witness ==
  /\ NWDone
  /\ scores = DEFAULT_SCORES
  /\ seq1 = seq2
  /\ Len(seq1) = 3
  /\ seq1[1] # seq1[2]
  /\ result.score = 6

(* seq2 occurs in seq1 as a block of consecutive symbols *)
IsSubstring(sub, s) ==
  \E k \in 0..(Len(s) - Len(sub)) : SubSeq(s, k + 1, k + Len(sub)) = sub

(* C20: when seq2 is not empty and occurs as a contiguous substring of      *)
(* seq1, smithWaterman with the default scores returns score 2*|seq2| and   *)
(* both aligned strings equal to seq2, without a gap.                       *)
C20_SWSubstringMatch ==
  (SWDone /\ scores = DEFAULT_SCORES /\ IsSubstring(seq2, seq1)) =>
    /\ result.score = 2 * Len(seq2)
    /\ result.alignedSeq1 = seq2
    /\ result.alignedSeq2 = seq2
    /\ \A k \in 1..Len(result.alignedSeq1) :
         result.alignedSeq1[k] # "-" /\ result.alignedSeq2[k] # "-"

C20_Witness ==
  /\ SWDone
  /\ scores = DEFAULT_SCORES
  /\ Len(seq2) = 2
  /\ Len(seq1) = 3
  /\ SubSeq(seq1, 2, 3) = seq2
  /\ SubSeq(seq1, 1, 2) # seq2
  /\ result.alignedSeq1 = seq2
  /\ result.startPos = Cell(1, 0)

-----------------------------------------------------------------------------
(* the three kinds of step one traceback iteration can make from (i, j),    *)
(* read off the variables before and after the iteration                    *)
StepHorizontal ==
  /\ i' = i /\ j' = j - 1
  /\ alignedSeq1' = <<"-">> \o alignedSeq1
  /\ alignedSeq2' = <<seq2[j]>> \o alignedSeq2

StepVertical ==
  /\ i' = i - 1 /\ j' = j
  /\ alignedSeq1' = <<seq1[i]>> \o alignedSeq1
  /\ alignedSeq2' = <<"-">> \o alignedSeq2

StepDiagonal ==
  /\ i' = i - 1 /\ j' = j - 1
  /\ alignedSeq1' = <<seq1[i]>> \o alignedSeq1
  /\ alignedSeq2' = <<seq2[j]>> \o alignedSeq2

-----------------------------------------------------------------------------
(* (r, c) comes before (r2, c2) in the scan of the fill loops: rows         *)
(* ascending, columns ascending inside a row                                *)
ScansBefore(r, c, r2, c2) == r < r2 \/ (r = r2 /\ c < c2)

(* C22: the score smithWaterman returns is the maximum over all cells of    *)
(* its matrix, endPos is the first cell holding that maximum in row-major   *)
(* order over 1..m x 1..n (a later equal cell never replaces it), and       *)
(* endPos is (0,0) when no cell is positive.                                *)
C22_SWScoreIsFirstMaximum ==
  SWDone =>
    LET mat == result.matrix
        top == SetMax({mat[r][c] : r \in 0..M, c \in 0..N})
    IN  /\ result.score = top
        /\ IF \E r \in 0..M, c \in 0..N : mat[r][c] > 0
           THEN /\ result.endPos.row \in 1..M
                /\ result.endPos.col \in 1..N
                /\ mat[result.endPos.row][result.endPos.col] = top
                /\ \A r \in 1..M, c \in 1..N :
                     ScansBefore(r, c, result.endPos.row, result.endPos.col)
                       => mat[r][c] < top
           ELSE result.endPos = Cell(0, 0)

(* the maximum is held by two cells and the earlier one is reported *)
C22_Witness ==
  /\ SWDone
  /\ result.score > 0
  /\ \E r \in 1..M, c \in 1..N :
       /\ result.matrix[r][c] = result.score
       /\ ScansBefore(result.endPos.row, result.endPos.col, r, c)
  /\ result.endPos # Cell(1, 1)

-----------------------------------------------------------------------------
(* the traceback of smithWaterman stops at (r, c) *)
SWStopsAt(mat, r, c) == r = 0 \/ c = 0 \/ mat[r][c] <= 0

(* C23: the smithWaterman traceback starts at the recorded maximum cell and *)
(* stops as soon as row = 0, col = 0 or the current value is <= 0; in the   *)
(* result path[0] = startPos is the cell where it stopped, the last path    *)
(* cell = endPos is the recorded maximum cell, and startPos is not below or *)
(* right of endPos.                                                         *)
C23_SWTracebackStartAndStop ==
  /\ pc = "sw_trace" =>
       /\ IF path = << >> THEN Cell(i, j) = maxPos ELSE path[1] = maxPos
       /\ \A k \in 1..Len(path) : ~SWStopsAt(matrix, path[k].row, path[k].col)
  /\ SWDone =>
       LET p == result.path
           mat == result.matrix
       IN  /\ p[1] = result.startPos
           /\ p[Len(p)] = result.endPos
           /\ mat[result.endPos.row][result.endPos.col] = result.score
           /\ SWStopsAt(mat, result.startPos.row, result.startPos.col)
           /\ \A k \in 2..Len(p) : ~SWStopsAt(mat, p[k].row, p[k].col)
           /\ result.startPos.row <= result.endPos.row
           /\ result.startPos.col <= result.endPos.col

(* a traceback that stopped at an interior cell of value 0, two or more     *)
(* steps away from the recorded maximum                                     *)
C23_Witness ==
  /\ SWDone
  /\ Len(result.path) >= 3
  /\ result.startPos.row > 0
  /\ result.startPos.col > 0
  /\ result.startPos.row < result.endPos.row

-----------------------------------------------------------------------------
(* the cell (r, c) equals one of its three candidate sources *)
HasSource(mat, r, c, s1, s2, sc) ==
  \/ mat[r][c] = mat[r - 1][c - 1] + (IF s1[r] = s2[c] THEN sc.match ELSE sc.mismatch)
  \/ mat[r][c] = mat[r - 1][c] + sc.gap
  \/ mat[r][c] = mat[r][c - 1] + sc.gap

(* C24: with integer scores the fallback branches are unreachable: every    *)
(* cell the smithWaterman traceback visits with i > 0, j > 0 and a positive *)
(* value equals one of its three candidates, so the break is never taken;   *)
(* every interior cell the needlemanWunsch traceback visits equals one of   *)
(* its three candidates, so the final else branch is never taken.           *)
C24_FallbackBranchesUnreachable ==
  /\ pc # "sw_exit"
  /\ (pc = "sw_trace" /\ i > 0 /\ j > 0 /\ matrix[i][j] > 0) =>
       /\ HasSource(matrix, i, j, seq1, seq2, scores)
       /\ SWBranch(matrix, i, j, seq1, seq2, scores) # "break"
  /\ (pc = "nw_trace" /\ i > 0 /\ j > 0) =>
       /\ HasSource(matrix, i, j, seq1, seq2, scores)
       /\ NWBranch(matrix, i, j, seq1, seq2, scores) # "fallback"

(* the needlemanWunsch traceback is at an interior cell, after a first      *)
(* step, where only the vertical candidate equals the cell                  *)
C24_Witness ==
  /\ pc = "nw_trace"
  /\ i > 0 /\ j > 0
  /\ path # << >>
  /\ matrix[i][j] = matrix[i - 1][j] + scores.gap
  /\ matrix[i][j] # matrix[i][j - 1] + scores.gap
  /\ matrix[i][j] # matrix[i - 1][j - 1]
                      + (IF seq1[i] = seq2[j] THEN scores.match ELSE scores.mismatch)

-----------------------------------------------------------------------------
(* the string with every '-' deleted *)
IsSymbol(x) == x # "-"

StripGaps(s) == SelectSeq(s, IsSymbol)

GapFree(s) == \A k \in 1..Len(s) : s[k] # "-"

(* C25: for every needlemanWunsch result on sequences without '-', deleting *)
(* every '-' from alignedSeq1 gives seq1, deleting every '-' from           *)
(* alignedSeq2 gives seq2, and no column has '-' in both strings.           *)
C25_NWStripGapsRoundTrip ==
  (NWDone /\ GapFree(seq1) /\ GapFree(seq2)) =>
    /\ StripGaps(result.alignedSeq1) = seq1
    /\ StripGaps(result.alignedSeq2) = seq2
    /\ \A k \in 1..Min2(Len(result.alignedSeq1), Len(result.alignedSeq2)) :
         ~(result.alignedSeq1[k] = "-" /\ result.alignedSeq2[k] = "-")

(* a global alignment with a gap in each of the two aligned strings *)
C25_Witness ==
  /\ NWDone
  /\ GapFree(seq1) /\ GapFree(seq2)
  /\ \E k \in 1..Len(result.alignedSeq1) : result.alignedSeq1[k] = "-"
  /\ \E k \in 1..Len(result.alignedSeq2) : result.alignedSeq2[k] = "-"
  /\ \E k \in 1..Len(result.alignedSeq1) :
       result.alignedSeq1[k] # "-" /\ result.alignedSeq2[k] # "-"

-----------------------------------------------------------------------------
(* s.substring(from, to) for 0 <= from <= to <= s.length *)
Substring(s, from, to) == SubSeq(s, from + 1, to)

(* C26: for every smithWaterman result on sequences without '-', deleting   *)
(* every '-' from alignedSeq1 gives seq1[startPos.row .. endPos.row) and    *)
(* deleting every '-' from alignedSeq2 gives seq2[startPos.col ..           *)
(* endPos.col).                                                             *)
C26_SWStripGapsGivesSubstrings ==
  (SWDone /\ GapFree(seq1) /\ GapFree(seq2)) =>
    /\ StripGaps(result.alignedSeq1)
         = Substring(seq1, result.startPos.row, result.endPos.row)
    /\ StripGaps(result.alignedSeq2)
         = Substring(seq2, result.startPos.col, result.endPos.col)

(* a local alignment with a gap in alignedSeq2 that starts after the first  *)
(* symbol of seq1 or seq2 and spans two or more symbols of seq1             *)
C26_Witness ==
  /\ SWDone
  /\ GapFree(seq1) /\ GapFree(seq2)
  /\ \E k \in 1..Len(result.alignedSeq2) : result.alignedSeq2[k] = "-"
  /\ result.startPos # Cell(0, 0)
  /\ result.endPos.row - result.startPos.row >= 2

-----------------------------------------------------------------------------
(* the score of one column of an aligned pair *)
ColumnScore(x, y, sc) ==
  IF x = "-" \/ y = "-" THEN sc.gap
  ELSE IF x = y THEN sc.match
  ELSE sc.mismatch

RECURSIVE RescoreFrom(_, _, _, _)
RescoreFrom(a, b, sc, k) ==
  IF k > Len(a) THEN 0
  ELSE ColumnScore(a[k], b[k], sc) + RescoreFrom(a, b, sc, k + 1)

(* the aligned pair scored column by column; the empty pair scores 0 *)
Rescore(a, b, sc) == RescoreFrom(a, b, sc, 1)

-----------------------------------------------------------------------------
-----------------------------------------------------------------------------
(* C29: in every path smithWaterman returns, the first cell (startPos) has  *)
(* matrix value 0 and every later path cell has a value above 0.            *)
C29_SWPathValues ==
  SWDone =>
    LET p == result.path
        mat == result.matrix
    IN  /\ p[1] = result.startPos
        /\ mat[p[1].row][p[1].col] = 0
        /\ \A k \in 2..Len(p) : mat[p[k].row][p[k].col] > 0

(* a path of three or more cells that starts on the top or left edge, away  *)
(* from the origin, and passes through a cell of smaller value than its end *)
C29_Witness ==
  /\ SWDone
  /\ Len(result.path) >= 3
  /\ (result.startPos.row = 0) # (result.startPos.col = 0)
  /\ result.matrix[result.path[2].row][result.path[2].col] < result.score

-----------------------------------------------------------------------------
(* the move from path cell k to path cell k + 1 *)
RowStep(p, k) == p[k + 1].row - p[k].row

ColStep(p, k) == p[k + 1].col - p[k].col

(* C30: in the forward path of either aligner every step is exactly one of  *)
(* (+1,+1), (+1,0), (0,+1), so no coordinate decreases and no cell appears  *)
(* twice; for smithWaterman both aligned strings have path.length - 1       *)
(* columns, a diagonal step giving a symbol pair, a (+1,0) step a '-' in    *)
(* alignedSeq2 and a (0,+1) step a '-' in alignedSeq1.                      *)
C30_ForwardStepsAndColumns ==
  /\ pc = "done" =>
       LET p == result.path
       IN  /\ \A k \in 1..(Len(p) - 1) :
                <<RowStep(p, k), ColStep(p, k)>> \in {<<1, 1>>, <<1, 0>>, <<0, 1>>}
           /\ \A a, b \in 1..Len(p) : a # b => p[a] # p[b]
  /\ SWDone =>
       LET p == result.path
           a1 == result.alignedSeq1
           a2 == result.alignedSeq2
       IN  /\ Len(a1) = Len(p) - 1
           /\ Len(a2) = Len(p) - 1
           /\ \A k \in 1..(Len(p) - 1) :
                /\ <<RowStep(p, k), ColStep(p, k)>> = <<1, 1>> =>
                     a1[k] = seq1[p[k + 1].row] /\ a2[k] = seq2[p[k + 1].col]
                /\ <<RowStep(p, k), ColStep(p, k)>> = <<1, 0>> =>
                     a1[k] = seq1[p[k + 1].row] /\ a2[k] = "-"
                /\ <<RowStep(p, k), ColStep(p, k)>> = <<0, 1>> =>
                     a1[k] = "-" /\ a2[k] = seq2[p[k + 1].col]

(* a local alignment whose path makes a diagonal, a (+1,0) and a (0,+1)     *)
(* step                                                                     *)
C30_Witness ==
  /\ SWDone
  /\ LET p == result.path
     IN  /\ \E k \in 1..(Len(p) - 1) : RowStep(p, k) = 1 /\ ColStep(p, k) = 1
         /\ \E k \in 1..(Len(p) - 1) : RowStep(p, k) = 1 /\ ColStep(p, k) = 0
         /\ \E k \in 1..(Len(p) - 1) : RowStep(p, k) = 0 /\ ColStep(p, k) = 1

====
